---- MODULE Spec2Model ----
(***************************************************************************)
(* mqtt-stresser: the per-client execution engine (src/worker.go,          *)
(* Worker.Run) and the aggregation engine (src/report.go, buildSummary,    *)
(* buildHistogram, median).                                                *)
(*                                                                         *)
(* Three specifications share the variables:                               *)
(*   Spec         NumWorkers goroutines run Worker.Run concurrently and    *)
(*                write to the shared channel resultChan;                  *)
(*   SpecSummary  buildSummary applied to bounded lists of Result;         *)
(*   SpecHistogram  buildHistogram applied to bounded sorted series.       *)
(*                                                                         *)
(* float64 values are modelled as exact rationals [n, d] in lowest terms   *)
(* (d > 0): rounding is not modelled.  Durations are whole seconds, and a  *)
(* measured duration is above zero.  Every worker is built from the same   *)
(* run configuration (TLS material, message count).                        *)
(***************************************************************************)
EXTENDS Integers, Sequences, FiniteSets, TLC

(***************************************************************************)
(* Bounds of the model.                                                    *)
(***************************************************************************)
\* number of concurrently running workers
NumWorkers == 2
\* Worker.NumberOfMessages ranges over 0..MaxMessages
MaxMessages == 2
\* a measured publish duration ranges over 1..MaxDur seconds
MaxDur == 2
\* buildSummary is applied to lists of at most MaxResults results
MaxResults == 3
\* nClient ranges over 1..MaxClients
MaxClients == 3
\* a result given to buildSummary reports 0 or MaxPublished messages
MaxPublished == 10
\* buildHistogram is applied to series of at most MaxSeries samples
MaxSeries == 4
\* a sample of such a series is one of 0..MaxSample
MaxSample == 10
MaxRate == 5
MaxOrdinal == 2
MaxSalt == 1
MaxRuns == 2

(***************************************************************************)
(* Event tags, src/report.go:9-15.                                         *)
(***************************************************************************)
ConnectFailedEvent == "ConnectFailed"
TimeoutExceededEvent == "TimeoutExceeded"
AbortedEvent == "Aborted"
CompletedEvent == "Completed"
ProgressReportEvent == "ProgressReport"

Events ==
    {ConnectFailedEvent, TimeoutExceededEvent, AbortedEvent, CompletedEvent,
     ProgressReportEvent}

\* the nil error
NoError == "nil"

\* A Result as the worker builds it: the fields a composite literal leaves
\* out hold Go's zero values.
Result(id, event, error, msg, time, published) ==
    [WorkerId |-> id, Event |-> event, Error |-> error, ErrorMessage |-> msg,
     PublishTime |-> time, MessagesPublished |-> published]

VARIABLES
    \* ---- Worker.Run, one goroutine per worker ----
    hostnameOk,      \* whether os.Hostname() succeeds on this host
    config,          \* the Worker fields read by Run, alike in every worker
    pc,              \* pc[w]: the position of worker w inside Run
    connectToken,    \* connectToken[w]: what the connect token reports
    i,               \* i[w]: the loop variable of the publish loop
    publishedCount,  \* publishedCount[w]
    lastAck,         \* lastAck[w]: how the last acknowledgment wait ended
    ops,             \* ops[w]: the calls made on the protocol client, in order
    resultChan,      \* the shared sink: the results sent, in order
    crashed,         \* an unrecovered panic has ended the process
    cancelled,       \* the context given to Run is done
    identities,      \* the topic names and client ids derived so far
    \* ---- buildSummary ----
    results,         \* the argument results
    phase,           \* "input" while the argument is built, then "summarized",
                     \* "built" or "measured", after the call
    summary,         \* what buildSummary returned
    \* ---- buildHistogram ----
    inputSeries,     \* the samples: the argument series of buildHistogram,
                     \* sorted as buildSummary passes it, or the sample list
                     \* buildSummary has collected, in order of arrival
    histogram        \* what buildHistogram returned

vars ==
    <<hostnameOk, config, pc, connectToken, i, publishedCount, lastAck, ops,
      resultChan, crashed, cancelled, identities, results, phase, summary,
      inputSeries, histogram>>

workerVars ==
    <<hostnameOk, config, pc, connectToken, i, publishedCount, lastAck, ops,
      resultChan, crashed, cancelled, identities>>

summaryVars == <<results, phase, summary, inputSeries, histogram>>

Workers == 1..NumWorkers

\* the PEM blob Worker.CA: not given, a certificate authority, or bytes that
\* hold no certificate
CAValues == {"empty", "valid", "invalid"}

\* the PEM blobs Worker.Cert and Worker.Key: not given, a certificate with its
\* own key, or a certificate with another key
KeyPairValues == {"empty", "matching", "mismatched"}

\* the errors a connect token can carry
ConnectErrors == {"connection refused", "not authorized"}

\* how the wait on a publish token can end
AckOutcomes == {"acked", "error", "timeout"}

\* the token of a connect that has not completed
PendingToken == [done |-> FALSE, err |-> NoError]

(***************************************************************************)
(* NewTLSConfig, src/worker.go:51-82: the error it returns (NoError when    *)
(* it returns a configuration).                                            *)
(***************************************************************************)
NewTLSConfig(ca, keypair) ==
    IF ca # "valid" THEN "CA is invalid"
    ELSE IF keypair # "matching" THEN "tls: key pair rejected"
    ELSE NoError

\* src/worker.go:111: len(w.CA) > 0 || len(w.Key) > 0
TLSMaterialSupplied ==
    config.CA # "empty" \/ config.KeyPair # "empty"

\* a call on the protocol client; index is the payload index of a publish
Op(name, index) == [op |-> name, index |-> index]

\* resultChan <- r; the receiver, which is not part of these sources, is taken
\* to accept every send
Send(r) == resultChan' = Append(resultChan, r)

\* panic(err) in a goroutine: the process ends, no goroutine takes another step
Panic(w) ==
    /\ pc' = [pc EXCEPT ![w] = "panicked"]
    /\ crashed' = TRUE

(***************************************************************************)
(* Worker.Run, src/worker.go:84-157, one action per step.                  *)
(***************************************************************************)
\* lines 85-109: the host name, the client identity, the client options
Initialize(w) ==
    /\ ~crashed
    /\ pc[w] = "init"
    /\ IF hostnameOk
       THEN pc' = [pc EXCEPT ![w] = "tls"] /\ UNCHANGED crashed
       ELSE Panic(w)
    /\ UNCHANGED <<hostnameOk, config, connectToken, i, publishedCount,
                   lastAck, ops, resultChan>>
    /\ UNCHANGED <<cancelled, identities>>
    /\ UNCHANGED summaryVars

\* lines 111-119: the TLS configuration, then the client
SetupTLS(w) ==
    /\ ~crashed
    /\ pc[w] = "tls"
    /\ IF TLSMaterialSupplied
          /\ NewTLSConfig(config.CA, config.KeyPair) # NoError
       THEN Panic(w)
       ELSE pc' = [pc EXCEPT ![w] = "connect"] /\ UNCHANGED crashed
    /\ UNCHANGED <<hostnameOk, config, connectToken, i, publishedCount,
                   lastAck, ops, resultChan>>
    /\ UNCHANGED <<cancelled, identities>>
    /\ UNCHANGED summaryVars

\* line 122, publisher.Connect()
Connect(w) ==
    /\ ~crashed
    /\ pc[w] = "connect"
    /\ ops' = [ops EXCEPT ![w] = Append(@, Op("connect", -1))]
    /\ pc' = [pc EXCEPT ![w] = "connectWait"]
    /\ UNCHANGED <<hostnameOk, config, connectToken, i, publishedCount,
                   lastAck, resultChan, crashed>>
    /\ UNCHANGED <<cancelled, identities>>
    /\ UNCHANGED summaryVars

\* the test of line 122 with the error test inverted
ConnectFailedInverted(token) == token.done /\ token.err = NoError

\* line 122: token.WaitTimeout(w.Timeout) && token.Error() != nil
ConnectFailed(token) == token.done /\ token.err # NoError

\* lines 122-134: the bounded wait on the connect token and what follows it
ConnectWait(w) ==
    /\ ~crashed
    /\ pc[w] = "connectWait"
    /\ \E token \in
            {[done |-> TRUE, err |-> NoError], PendingToken}
            \cup {[done |-> TRUE, err |-> e] : e \in ConnectErrors} :
        /\ connectToken' = [connectToken EXCEPT ![w] = token]
        /\ IF ConnectFailed(token)
           THEN /\ Send(Result(w, ConnectFailedEvent, TRUE, token.err, 0, 0))
                /\ pc' = [pc EXCEPT ![w] = "done"]
           ELSE /\ pc' = [pc EXCEPT ![w] = "loop"]
                /\ UNCHANGED resultChan
    /\ UNCHANGED <<hostnameOk, config, i, publishedCount, lastAck, ops,
                   crashed>>
    /\ UNCHANGED <<cancelled, identities>>
    /\ UNCHANGED summaryVars

\* lines 135-139: the loop test, the payload of index i, Publish, the count
Publish(w) ==
    /\ ~crashed
    /\ pc[w] = "loop"
    /\ i[w] < config.NumberOfMessages
    /\ ops' = [ops EXCEPT ![w] = Append(@, Op("publish", i[w]))]
    /\ publishedCount' = [publishedCount EXCEPT ![w] = @ + 1]
    /\ pc' = [pc EXCEPT ![w] = "ackWait"]
    /\ UNCHANGED <<hostnameOk, config, connectToken, i, lastAck, resultChan,
                   crashed>>
    /\ UNCHANGED <<cancelled, identities>>
    /\ UNCHANGED summaryVars

\* line 140 as a fail-fast loop: a wait that does not confirm the publish
\* leaves the loop
AckWaitFailFast(w) ==
    /\ ~crashed
    /\ pc[w] = "ackWait"
    /\ \E ack \in AckOutcomes :
        /\ lastAck' = [lastAck EXCEPT ![w] = ack]
        /\ IF ack = "acked"
           THEN pc' = [pc EXCEPT ![w] = "sleep"] /\ UNCHANGED <<i, ops>>
           ELSE /\ pc' = [pc EXCEPT ![w] = "emit"]
                /\ i' = [i EXCEPT ![w] = @ + 1]
                /\ ops' = [ops EXCEPT ![w] = Append(@, Op("disconnect", -1))]
    /\ UNCHANGED <<hostnameOk, config, connectToken, publishedCount,
                   resultChan, crashed>>
    /\ UNCHANGED <<cancelled, identities>>
    /\ UNCHANGED summaryVars

\* a wait without a timeout: it ends when the broker answers, and when the
\* broker does not answer the worker stays in it
AckWaitNoTimeout(w) ==
    /\ ~crashed
    /\ pc[w] = "ackWait"
    /\ lastAck[w] # "timeout"
    /\ \E ack \in AckOutcomes :
        /\ lastAck' = [lastAck EXCEPT ![w] = ack]
        /\ pc' = IF ack = "timeout" THEN pc ELSE [pc EXCEPT ![w] = "sleep"]
    /\ UNCHANGED <<hostnameOk, config, connectToken, i, publishedCount, ops,
                   resultChan, crashed>>
    /\ UNCHANGED <<cancelled, identities>>
    /\ UNCHANGED summaryVars

\* line 140: token.WaitTimeout(w.Timeout), its result dropped
AckWait(w) ==
    /\ ~crashed
    /\ pc[w] = "ackWait"
    /\ \E ack \in AckOutcomes : lastAck' = [lastAck EXCEPT ![w] = ack]
    /\ pc' = [pc EXCEPT ![w] = "sleep"]
    /\ UNCHANGED <<hostnameOk, config, connectToken, i, publishedCount, ops,
                   resultChan, crashed>>
    /\ UNCHANGED <<cancelled, identities>>
    /\ UNCHANGED summaryVars

\* lines 141 and 135: time.Sleep(w.PauseBetweenMessages), then i++
Sleep(w) ==
    /\ ~crashed
    /\ pc[w] = "sleep"
    /\ i' = [i EXCEPT ![w] = @ + 1]
    /\ pc' = [pc EXCEPT ![w] = "loop"]
    /\ UNCHANGED <<hostnameOk, config, connectToken, publishedCount, lastAck,
                   ops, resultChan, crashed>>
    /\ UNCHANGED <<cancelled, identities>>
    /\ UNCHANGED summaryVars

\* lines 135 and 143: the loop test fails, publisher.Disconnect(5)
Disconnect(w) ==
    /\ ~crashed
    /\ pc[w] = "loop"
    /\ ~(i[w] < config.NumberOfMessages)
    /\ ops' = [ops EXCEPT ![w] = Append(@, Op("disconnect", -1))]
    /\ pc' = [pc EXCEPT ![w] = "emit"]
    /\ UNCHANGED <<hostnameOk, config, connectToken, i, publishedCount,
                   lastAck, resultChan, crashed>>
    /\ UNCHANGED <<cancelled, identities>>
    /\ UNCHANGED summaryVars

\* lines 145-156: time.Since(t0), then the Completed result
EmitCompleted(w) ==
    /\ ~crashed
    /\ pc[w] = "emit"
    /\ \E publishTime \in 1..MaxDur :
        Send(Result(w, CompletedEvent, FALSE, NoError, publishTime,
                    publishedCount[w]))
    /\ pc' = [pc EXCEPT ![w] = "done"]
    /\ UNCHANGED <<hostnameOk, config, connectToken, i, publishedCount,
                   lastAck, ops, crashed>>
    /\ UNCHANGED <<cancelled, identities>>
    /\ UNCHANGED summaryVars

(***************************************************************************)
(* The topic name and the client id, src/worker.go:87-101.                 *)
(***************************************************************************)
\* the names os.Hostname() can return on the hosts the workers run on
Hostnames == {"host-a", "host-b"}

\* the decimal digits of n >= 0, most significant first
RECURSIVE DecimalDigits(_)
DecimalDigits(n) ==
    IF n < 10 THEN <<n>> ELSE Append(DecimalDigits(n \div 10), n % 10)

\* zeros put before the digits s up to the width
RECURSIVE PadLeft(_, _)
PadLeft(s, width) ==
    IF Len(s) >= width THEN s ELSE PadLeft(<<0>> \o s, width)

\* line 95: fmt.Sprintf("%014d", w.WorkerId), for a WorkerId >= 0
IdNum(WorkerId) == PadLeft(DecimalDigits(WorkerId), 14)

\* lines 98 and 101: the two templates are named, their text is not part of
\* Run
topicNameTemplate == "topicNameTemplate"
publisherClientIdTemplate == "publisherClientIdTemplate"

\* fmt.Sprintf(template, args...): the text of the template with its verbs
\* replaced by the arguments in order.  The result is kept as the template
\* and the rendered arguments: the same template and arguments give the same
\* string, and the arguments are taken to stay apart in the string.
Sprintf(template, args) == [template |-> template, args |-> args]

\* line 99, in a comment of the source: the client id made of the host name,
\* the ordinal and the salt
WorkerIdentitySalted(hostname, WorkerId, t) ==
    [topicName |->
        Sprintf(topicNameTemplate,
                <<hostname, IdNum(WorkerId), DecimalDigits(t)>>),
     publisherClientId |->
        Sprintf(publisherClientIdTemplate,
                <<hostname, DecimalDigits(WorkerId), DecimalDigits(t)>>)]

\* lines 95-101: topicName and publisherClientId of the worker WorkerId on
\* the host hostname, t being the value of randomSource.Int31()
WorkerIdentity(hostname, WorkerId, t) ==
    [topicName |->
        Sprintf(topicNameTemplate,
                <<hostname, IdNum(WorkerId), DecimalDigits(t)>>),
     publisherClientId |->
        Sprintf(publisherClientIdTemplate, <<IdNum(WorkerId)>>)]

\* lines 87-101 of one run of Run, on some host, with some ordinal and salt
DeriveIdentity ==
    /\ Len(identities) < MaxRuns
    /\ \E hostname \in Hostnames, WorkerId \in 0..MaxOrdinal, t \in 0..MaxSalt :
        identities' =
            Append(identities,
                   [hostname |-> hostname, WorkerId |-> WorkerId, t |-> t,
                    id |-> WorkerIdentity(hostname, WorkerId, t)])
    /\ UNCHANGED <<hostnameOk, config, pc, connectToken, i, publishedCount,
                   lastAck, ops, resultChan, crashed, cancelled>>
    /\ UNCHANGED summaryVars

\* line 84: the caller cancels the context ctx it gave to Run.  Run holds
\* ctx and has no statement that reads it, so no step of a worker tests
\* cancelled.
Cancel ==
    /\ ~crashed
    /\ ~cancelled
    /\ cancelled' = TRUE
    /\ UNCHANGED <<hostnameOk, config, pc, connectToken, i, publishedCount,
                   lastAck, ops, resultChan, crashed, identities>>
    /\ UNCHANGED summaryVars

(***************************************************************************)
(* float64 arithmetic on exact rationals.  A value is [n |-> numerator,    *)
(* d |-> denominator] in lowest terms with d > 0, so that two equal values *)
(* are the same record (they are the same key of a Go map).                *)
(***************************************************************************)
RECURSIVE GCD(_, _)
GCD(a, b) == IF b = 0 THEN a ELSE GCD(b, a % b)

Abs(x) == IF x < 0 THEN -x ELSE x

\* n / d for d # 0, in lowest terms
Frac(n, d) ==
    LET g == GCD(Abs(n), Abs(d))
        sgn == IF d < 0 THEN -1 ELSE 1
    IN  [n |-> sgn * (n \div g), d |-> sgn * (d \div g)]

\* float64(k)
Float(k) == [n |-> k, d |-> 1]

FAdd(x, y) == Frac(x.n * y.d + y.n * x.d, x.d * y.d)
FSub(x, y) == Frac(x.n * y.d - y.n * x.d, x.d * y.d)
FMul(x, y) == Frac(x.n * y.n, x.d * y.d)
\* x / y for y # 0
FDiv(x, y) == Frac(x.n * y.d, x.d * y.n)
FLe(x, y) == x.n * y.d <= y.n * x.d
FLt(x, y) == x.n * y.d < y.n * x.d

(***************************************************************************)
(* sort.Float64s, as called at src/report.go:88: insertion sort.           *)
(***************************************************************************)
RECURSIVE Insert(_, _)
Insert(x, s) ==
    IF s = <<>> THEN <<x>>
    ELSE IF FLe(x, Head(s)) THEN <<x>> \o s
    ELSE <<Head(s)>> \o Insert(x, Tail(s))

\* a sort that leaves the slice as it is
SortFloat64sNone(s) == s

RECURSIVE SortFloat64s(_)
SortFloat64s(s) ==
    IF s = <<>> THEN <<>> ELSE Insert(Head(s), SortFloat64s(Tail(s)))

(***************************************************************************)
(* median, src/report.go:203-205.  Go indexes from 0, TLA+ from 1.         *)
(***************************************************************************)
\* the upper middle element alone
medianUpper(series) == series[(Len(series) \div 2) + 1]

median(series) ==
    FDiv(FAdd(series[((Len(series) - 1) \div 2) + 1],
              series[(Len(series) \div 2) + 1]),
         Float(2))

(***************************************************************************)
(* buildHistogram, src/report.go:141-181.                                  *)
(***************************************************************************)
nBuckets == 10

\* lines 154-155: the bounds f0 and f1 of bucket k
BucketLow(slowest, steps, k) == FAdd(slowest, FMul(steps, Float(k)))
BucketHigh(slowest, steps, k) == FAdd(slowest, FMul(steps, Float(k + 1)))

\* a bucket without its upper bound
InBucketHalfOpen(v, f0, f1) == FLe(f0, v) /\ FLt(v, f1)

\* line 157: v >= f0 && v <= f1
InBucket(v, f0, f1) == FLe(f0, v) /\ FLe(v, f1)

\* lines 151-160: the scan for i = k..nBuckets, tmp being assigned by every
\* bucket that holds v
\* the scan leaving the loop at the first bucket that holds v
RECURSIVE ScanBucketsFirstMatch(_, _, _, _, _)
ScanBucketsFirstMatch(v, slowest, steps, k, tmp) ==
    IF k > nBuckets THEN tmp
    ELSE LET f0 == BucketLow(slowest, steps, k)
             f1 == BucketHigh(slowest, steps, k)
         IN  IF InBucket(v, f0, f1) THEN f1
             ELSE ScanBucketsFirstMatch(v, slowest, steps, k + 1, tmp)

RECURSIVE ScanBuckets(_, _, _, _, _)
ScanBuckets(v, slowest, steps, k, tmp) ==
    IF k > nBuckets THEN tmp
    ELSE LET f0 == BucketLow(slowest, steps, k)
             f1 == BucketHigh(slowest, steps, k)
         IN  ScanBuckets(v, slowest, steps, k + 1,
                         IF InBucket(v, f0, f1) THEN f1 ELSE tmp)

\* lines 150-163: the key under which v is counted
BucketKey(v, slowest, steps) == ScanBuckets(v, slowest, steps, 0, Float(0))

\* line 162: bucketCount[tmp]++ on a map, a missing key counting as 0
Increment(bucketCount, tmp) ==
    [k \in DOMAIN bucketCount \cup {tmp} |->
        IF k = tmp
        THEN (IF tmp \in DOMAIN bucketCount THEN bucketCount[tmp] ELSE 0) + 1
        ELSE bucketCount[k]]

\* lines 150-163: the loop over series[j..], from the map bucketCount
RECURSIVE CountBuckets(_, _, _, _, _)
CountBuckets(series, j, slowest, steps, bucketCount) ==
    IF j > Len(series) THEN bucketCount
    ELSE CountBuckets(series, j + 1, slowest, steps,
            Increment(bucketCount, BucketKey(series[j], slowest, steps)))

\* lines 142-163: bucketCount, a map from key to count
BucketCount(series) ==
    LET slowest == series[1]
        fastest == series[Len(series)]
        steps == FDiv(FSub(fastest, slowest), Float(nBuckets))
    IN  CountBuckets(series, 1, slowest, steps, <<>>)

\* the share of bucket k alone, prev never added
CumulativeOwnShare(bucketCount, total, k) ==
    FDiv(Float(bucketCount[k]), Float(total))

\* lines 165-178: the cumulative value of key k, the keys taken in ascending
\* order (the sort of line 170)
Cumulative(bucketCount, total, k) ==
    LET below == {q \in DOMAIN bucketCount : FLe(q, k)}
        RECURSIVE Sum(_)
        Sum(S) ==
            IF S = {} THEN Float(0)
            ELSE LET q == CHOOSE x \in S : \A y \in S : FLe(y, x)
                 IN  FAdd(FDiv(Float(bucketCount[q]), Float(total)),
                          Sum(S \ {q}))
    IN  Sum(below)

buildHistogram(series, total) ==
    LET bucketCount == BucketCount(series)
    IN  [k \in DOMAIN bucketCount |-> Cumulative(bucketCount, total, k)]

(***************************************************************************)
(* buildSummary, src/report.go:37-107.                                     *)
(***************************************************************************)
\* the error of line 40 and the error of line 85
ErrNoResults == "no results collected"
ErrNoFeasible == "no feasible results found"

\* Summary{}
ZeroSummary ==
    [Clients |-> 0, TotalMessages |-> 0, MessagesPublished |-> 0,
     Errors |-> 0, ErrorRate |-> Float(0), Completed |-> 0, InProgress |-> 0,
     ConnectFailed |-> 0, TimeoutExceeded |-> 0, Aborted |-> 0,
     PublishPerformance |-> <<>>, PublishPerformanceMedian |-> Float(0),
     PublishPerformanceHistogram |-> <<>>]

\* lines 45-53: the counters and the sample list before the loop
ZeroCounters ==
    [nMessagesPublished |-> 0, nErrors |-> 0, nCompleted |-> 0,
     nInProgress |-> 0, nConnectFailed |-> 0, nTimeoutExceeded |-> 0,
     nAborted |-> 0, publishPerformance |-> <<>>]

\* line 79: the events that yield a throughput sample
Feasible(r) == r.Event = CompletedEvent \/ r.Event = ProgressReportEvent

\* line 80: float64(r.MessagesPublished) / r.PublishTime.Seconds()
Throughput(r) == FDiv(Float(r.MessagesPublished), Float(r.PublishTime))

\* the iteration adding up the published counts of the results without the
\* error flag only
CountResultSkipFailed(c, r) ==
    [nMessagesPublished |->
        c.nMessagesPublished + (IF r.Error THEN 0 ELSE r.MessagesPublished),
     nErrors |-> c.nErrors + (IF r.Error THEN 1 ELSE 0),
     nConnectFailed |->
        c.nConnectFailed
        + (IF r.Error /\ r.Event = ConnectFailedEvent THEN 1 ELSE 0),
     nTimeoutExceeded |->
        c.nTimeoutExceeded
        + (IF r.Error /\ r.Event = TimeoutExceededEvent THEN 1 ELSE 0),
     nAborted |->
        c.nAborted + (IF r.Error /\ r.Event = AbortedEvent THEN 1 ELSE 0),
     nCompleted |-> c.nCompleted + (IF r.Event = CompletedEvent THEN 1 ELSE 0),
     nInProgress |->
        c.nInProgress + (IF r.Event = ProgressReportEvent THEN 1 ELSE 0),
     publishPerformance |->
        IF r.Event = CompletedEvent \/ r.Event = ProgressReportEvent
        THEN Append(c.publishPerformance,
                    FDiv(Float(r.MessagesPublished), Float(r.PublishTime)))
        ELSE c.publishPerformance]

\* the iteration counting the event tags of all results, the switch of lines
\* 62-69 taken out of the test of r.Error
CountResultTagAlways(c, r) ==
    [nMessagesPublished |-> c.nMessagesPublished + r.MessagesPublished,
     nErrors |-> c.nErrors + (IF r.Error THEN 1 ELSE 0),
     nConnectFailed |->
        c.nConnectFailed + (IF r.Event = ConnectFailedEvent THEN 1 ELSE 0),
     nTimeoutExceeded |->
        c.nTimeoutExceeded
        + (IF r.Event = TimeoutExceededEvent THEN 1 ELSE 0),
     nAborted |-> c.nAborted + (IF r.Event = AbortedEvent THEN 1 ELSE 0),
     nCompleted |-> c.nCompleted + (IF r.Event = CompletedEvent THEN 1 ELSE 0),
     nInProgress |->
        c.nInProgress + (IF r.Event = ProgressReportEvent THEN 1 ELSE 0),
     publishPerformance |->
        IF r.Event = CompletedEvent \/ r.Event = ProgressReportEvent
        THEN Append(c.publishPerformance,
                    FDiv(Float(r.MessagesPublished), Float(r.PublishTime)))
        ELSE c.publishPerformance]

\* lines 56-81: one iteration of the loop, on result r
CountResult(c, r) ==
    [nMessagesPublished |-> c.nMessagesPublished + r.MessagesPublished,
     nErrors |-> c.nErrors + (IF r.Error THEN 1 ELSE 0),
     nConnectFailed |->
        c.nConnectFailed
        + (IF r.Error /\ r.Event = ConnectFailedEvent THEN 1 ELSE 0),
     nTimeoutExceeded |->
        c.nTimeoutExceeded
        + (IF r.Error /\ r.Event = TimeoutExceededEvent THEN 1 ELSE 0),
     nAborted |->
        c.nAborted + (IF r.Error /\ r.Event = AbortedEvent THEN 1 ELSE 0),
     nCompleted |-> c.nCompleted + (IF r.Event = CompletedEvent THEN 1 ELSE 0),
     nInProgress |->
        c.nInProgress + (IF r.Event = ProgressReportEvent THEN 1 ELSE 0),
     publishPerformance |->
        IF Feasible(r)
        THEN Append(c.publishPerformance, Throughput(r))
        ELSE c.publishPerformance]

\* lines 55-82: the loop over rs[k..], from the counters c
RECURSIVE CountResults(_, _, _)
CountResults(rs, k, c) ==
    IF k > Len(rs) THEN c
    ELSE CountResults(rs, k + 1, CountResult(c, rs[k]))

\* lines 88-106: the Summary of a run whose sample list is not empty
MakeSummary(nClient, nMessages, c) ==
    LET publishPerformance == SortFloat64s(c.publishPerformance)
    IN  [Clients |-> nClient,
         TotalMessages |-> nClient * nMessages,
         MessagesPublished |-> c.nMessagesPublished,
         Errors |-> c.nErrors,
         ErrorRate |->
            FMul(FDiv(Float(c.nErrors), Float(nClient)), Float(100)),
         Completed |-> c.nCompleted,
         InProgress |-> c.nInProgress,
         ConnectFailed |-> c.nConnectFailed,
         TimeoutExceeded |-> c.nTimeoutExceeded,
         Aborted |-> c.nAborted,
         PublishPerformance |-> publishPerformance,
         PublishPerformanceMedian |-> median(publishPerformance),
         PublishPerformanceHistogram |->
            buildHistogram(publishPerformance, c.nCompleted + c.nInProgress)]

\* buildSummary without the test of line 39
buildSummaryNoEmptyTest(nClient, nMessages, rs) ==
    LET c == CountResults(rs, 1, ZeroCounters)
    IN  IF Len(c.publishPerformance) = 0
        THEN [value |-> ZeroSummary, err |-> ErrNoFeasible]
        ELSE [value |-> MakeSummary(nClient, nMessages, c), err |-> NoError]

\* the pair buildSummary returns
buildSummary(nClient, nMessages, rs) ==
    IF Len(rs) = 0 THEN [value |-> ZeroSummary, err |-> ErrNoResults]
    ELSE LET c == CountResults(rs, 1, ZeroCounters)
         IN  IF Len(c.publishPerformance) = 0
             THEN [value |-> ZeroSummary, err |-> ErrNoFeasible]
             ELSE [value |-> MakeSummary(nClient, nMessages, c),
                   err |-> NoError]

(***************************************************************************)
(* The calls of buildSummary that are checked: every list of at most       *)
(* MaxResults results over the values below, with every client count and   *)
(* message count below.                                                    *)
(***************************************************************************)
\* a published count: nothing, or every message of the client
PublishedValues == {0, MaxPublished}

\* the results given to buildSummary; PublishTime is read for the feasible
\* events only, and is a measured time, above zero
ResultValues ==
    {Result(0, e, b, IF b THEN "error" ELSE NoError, t, p) :
        e \in {CompletedEvent, ProgressReportEvent}, b \in BOOLEAN,
        t \in 1..MaxDur, p \in PublishedValues}
    \cup
    {Result(0, e, b, IF b THEN "error" ELSE NoError, 0, p) :
        e \in {ConnectFailedEvent, TimeoutExceededEvent, AbortedEvent},
        b \in BOOLEAN, p \in PublishedValues}

\* one more result is collected
AddResult ==
    /\ phase = "input"
    /\ Len(results) < MaxResults
    /\ \E r \in ResultValues : results' = Append(results, r)
    /\ UNCHANGED <<phase, summary, inputSeries, histogram>>
    /\ UNCHANGED workerVars

\* buildSummary(nClient, nMessages, results)
Summarize ==
    /\ phase = "input"
    /\ \E nClient \in 1..MaxClients, nMessages \in {1, MaxPublished} :
        summary' = [args |-> <<nClient, nMessages>>,
                    ret |-> buildSummary(nClient, nMessages, results)]
    /\ phase' = "summarized"
    /\ UNCHANGED <<results, inputSeries, histogram>>
    /\ UNCHANGED workerVars

(***************************************************************************)
(* The calls of buildHistogram that are checked: every ascending series of *)
(* at most MaxSeries samples among 0..MaxSample, total being the number of *)
(* samples, as at src/report.go:105.                                       *)
(***************************************************************************)
\* one more sample, not below the last one
AppendSample ==
    /\ phase = "input"
    /\ Len(inputSeries) < MaxSeries
    /\ \E v \in 0..MaxSample :
        /\ IF inputSeries = <<>> THEN TRUE
           ELSE FLe(inputSeries[Len(inputSeries)], Float(v))
        /\ inputSeries' = Append(inputSeries, Float(v))
    /\ UNCHANGED <<results, phase, summary, histogram>>
    /\ UNCHANGED workerVars

\* buildHistogram(inputSeries, len(inputSeries))
BuildHistogram ==
    /\ phase = "input"
    /\ inputSeries # <<>>
    /\ histogram' = buildHistogram(inputSeries, Len(inputSeries))
    /\ phase' = "built"
    /\ UNCHANGED <<results, summary, inputSeries>>
    /\ UNCHANGED workerVars

(***************************************************************************)
(* The sample lists buildSummary sorts and takes the median of: every list *)
(* of at most MaxSeries samples among 1..MaxRate, in any order, as left by *)
(* the loop of src/report.go:55-82 for that many Completed outcomes.       *)
(***************************************************************************)
\* one more sample, in the order of arrival
AppendThroughput ==
    /\ phase = "input"
    /\ Len(inputSeries) < MaxSeries
    /\ \E v \in 1..MaxRate : inputSeries' = Append(inputSeries, Float(v))
    /\ UNCHANGED <<results, phase, summary, histogram>>
    /\ UNCHANGED workerVars

\* the counters after the loop over Len(samples) Completed outcomes whose
\* throughputs are samples
CountersOfSamples(samples) ==
    [ZeroCounters EXCEPT !.nCompleted = Len(samples),
                         !.publishPerformance = samples]

\* lines 84-106 of buildSummary on these counters, one client per outcome
\* and one message per client
SummarizeSamples ==
    /\ phase = "input"
    /\ inputSeries # <<>>
    /\ summary' =
        [args |-> <<Len(inputSeries), 1>>,
         ret |-> [value |-> MakeSummary(Len(inputSeries), 1,
                                        CountersOfSamples(inputSeries)),
                  err |-> NoError]]
    /\ phase' = "measured"
    /\ UNCHANGED <<results, inputSeries, histogram>>
    /\ UNCHANGED workerVars

\* buildSummary has not been called
NoSummary ==
    [args |-> <<0, 0>>, ret |-> [value |-> ZeroSummary, err |-> NoError]]

Init ==
    /\ hostnameOk \in BOOLEAN
    /\ config \in [CA : CAValues, KeyPair : KeyPairValues,
                   NumberOfMessages : 0..MaxMessages]
    /\ pc = [w \in Workers |-> "init"]
    /\ connectToken = [w \in Workers |-> PendingToken]
    /\ i = [w \in Workers |-> 0]
    /\ publishedCount = [w \in Workers |-> 0]
    /\ lastAck = [w \in Workers |-> "none"]
    /\ ops = [w \in Workers |-> <<>>]
    /\ resultChan = <<>>
    /\ crashed = FALSE
    /\ cancelled = FALSE
    /\ identities = <<>>
    /\ results = <<>>
    /\ phase = "idle"
    /\ summary = NoSummary
    /\ inputSeries = <<>>
    /\ histogram = <<>>

Next ==
    \E w \in Workers :
        \/ Initialize(w)
        \/ SetupTLS(w)
        \/ Connect(w)
        \/ ConnectWait(w)
        \/ Publish(w)
        \/ AckWait(w)
        \/ Sleep(w)
        \/ Disconnect(w)
        \/ EmitCompleted(w)

Spec == Init /\ [][Next]_vars

\* a step of the goroutine of worker w
WorkerStep(w) ==
    \/ Initialize(w)
    \/ SetupTLS(w)
    \/ Connect(w)
    \/ ConnectWait(w)
    \/ Publish(w)
    \/ AckWait(w)
    \/ Sleep(w)
    \/ Disconnect(w)
    \/ EmitCompleted(w)

\* Every statement of Run that can block returns: WaitTimeout (lines 122 and
\* 140) returns at the latest after w.Timeout, time.Sleep (line 141) after
\* w.PauseBetweenMessages, Disconnect (line 143) after its quiesce time, and
\* the send on resultChan when the caller receives; the Go scheduler runs a
\* goroutine that can run.  So a worker that can take a step takes one.
Fairness == \A w \in Workers : WF_vars(WorkerStep(w))

SpecLive == Init /\ [][Next]_vars /\ Fairness

\* the workers run, and the caller may cancel their context at any moment,
\* before the first step of a worker too
NextCancel == Next \/ Cancel

SpecCancel == Init /\ [][NextCancel]_vars

\* no worker runs; buildSummary is called once
InitSummary ==
    /\ hostnameOk = TRUE
    /\ config = [CA |-> "empty", KeyPair |-> "empty", NumberOfMessages |-> 0]
    /\ pc = [w \in Workers |-> "idle"]
    /\ connectToken = [w \in Workers |-> PendingToken]
    /\ i = [w \in Workers |-> 0]
    /\ publishedCount = [w \in Workers |-> 0]
    /\ lastAck = [w \in Workers |-> "none"]
    /\ ops = [w \in Workers |-> <<>>]
    /\ resultChan = <<>>
    /\ crashed = FALSE
    /\ cancelled = FALSE
    /\ identities = <<>>
    /\ results = <<>>
    /\ phase = "input"
    /\ summary = NoSummary
    /\ inputSeries = <<>>
    /\ histogram = <<>>

NextSummary == AddResult \/ Summarize

SpecSummary == InitSummary /\ [][NextSummary]_vars

\* no worker goes past line 101; the identities of several runs are derived
NextIdentity == DeriveIdentity

SpecIdentity == InitSummary /\ [][NextIdentity]_vars

\* no worker runs; buildHistogram is called once
NextHistogram == AppendSample \/ BuildHistogram

SpecHistogram == InitSummary /\ [][NextHistogram]_vars

\* no worker runs; a sample list is sorted and summarized once
NextMedian == AppendThroughput \/ SummarizeSamples

SpecMedian == InitSummary /\ [][NextMedian]_vars

(***************************************************************************)
(* Properties of Worker.Run, checked under Spec.                           *)
(***************************************************************************)
\* the results worker w has written to the sink, in order
OutcomesOf(w) == SelectSeq(resultChan, LAMBDA r : r.WorkerId = w)

\* the publishes worker w has issued, in order
PublishesOf(w) == SelectSeq(ops[w], LAMBDA o : o.op = "publish")

\* the publishes of payload indices 0, 1, ..., n-1
PublishRun(n) == [k \in 1..n |-> Op("publish", k - 1)]

\* Run has returned in worker w
Returned(w) == pc[w] = "done"

\* the bounded wait on w's connect is over
WaitedForConnect(w) == pc[w] \in {"loop", "ackWait", "sleep", "emit", "done"}

\* the wait on w's connect ran into the timeout
ConnectTimedOut(w) == WaitedForConnect(w) /\ ~connectToken[w].done

\* w's connect completed without an error within the timeout
Connected(w) ==
    WaitedForConnect(w) /\ connectToken[w].done
    /\ connectToken[w].err = NoError

\* w's connect completed with an error within the timeout
ConnectErrored(w) ==
    WaitedForConnect(w) /\ connectToken[w].done
    /\ connectToken[w].err # NoError

\* building the TLS configuration of the run fails
TLSConstructionFails ==
    /\ config.CA # "empty" \/ config.KeyPair # "empty"
    /\ config.CA # "valid" \/ config.KeyPair # "matching"

\* C1: a worker whose connect wait timed out has, when Run returns, written
\* exactly one outcome, a ConnectFailed one with the error flag set and a
\* published count of 0, has issued no publish, and has written no Completed
\* outcome.
C1_ConnectTimeoutEmitsConnectFailed ==
    \A w \in Workers :
        (ConnectTimedOut(w) /\ Returned(w)) =>
            /\ PublishesOf(w) = <<>>
            /\ Len(OutcomesOf(w)) = 1
            /\ OutcomesOf(w)[1].Event = ConnectFailedEvent
            /\ OutcomesOf(w)[1].Error
            /\ OutcomesOf(w)[1].MessagesPublished = 0

\* C2: on a host whose name resolves, on every path of Run a worker never
\* writes two outcomes, a worker whose Run has ended (returned or panicked)
\* has written exactly one, and once every worker has ended the sink holds
\* NumWorkers outcomes.
C2_ExactlyOneOutcomePerWorker ==
    hostnameOk =>
        \A w \in Workers :
            /\ Len(OutcomesOf(w)) <= 1
            /\ pc[w] \in {"done", "panicked"} => Len(OutcomesOf(w)) = 1
            /\ (\A v \in Workers : pc[v] \in {"done", "panicked"}) =>
                Len(resultChan) = NumWorkers

\* C3: when TLS material is supplied and building the TLS configuration
\* fails, a worker that is past that step has written a ConnectFailed outcome
\* with the error flag set, has made no connect attempt, and has not ended
\* the process.
C3_TLSFailureEmitsConnectFailed ==
    \A w \in Workers :
        (hostnameOk /\ TLSConstructionFails /\ pc[w] \notin {"init", "tls"}) =>
            /\ ~crashed
            /\ ops[w] = <<>>
            /\ Len(OutcomesOf(w)) = 1
            /\ OutcomesOf(w)[1].Event = ConnectFailedEvent
            /\ OutcomesOf(w)[1].Error

\* C4: a worker whose connect completed with an error within the timeout has
\* written exactly the outcome {ConnectFailed, error flag set, detail = the
\* connect error, published 0} and has returned; it has called nothing but
\* the connect: no publish, no disconnect.
C4_ConnectErrorTerminates ==
    \A w \in Workers :
        (connectToken[w].done /\ connectToken[w].err # NoError) =>
            /\ pc[w] = "done"
            /\ ops[w] = <<Op("connect", -1)>>
            /\ publishedCount[w] = 0
            /\ OutcomesOf(w) =
                <<Result(w, ConnectFailedEvent, TRUE, connectToken[w].err,
                         0, 0)>>

\* C4's case: a connect that failed with an error, the worker returned
C4_Witness ==
    \E w \in Workers :
        /\ connectToken[w].done
        /\ connectToken[w].err = "not authorized"
        /\ pc[w] = "done"
        /\ Len(resultChan) = NumWorkers

\* C5: every publish issued is counted, a connected worker has issued the
\* publishes of payload indices 0, 1, ... in that order at every moment, all
\* NumberOfMessages of them once the loop is left, whatever the acknowledgment
\* waits returned, and its outcome is Completed with published count =
\* NumberOfMessages and the error flag unset.
C5_PublishLoopNeverAborts ==
    \A w \in Workers :
        /\ publishedCount[w] = Len(PublishesOf(w))
        /\ Connected(w) =>
            /\ PublishesOf(w) = PublishRun(Len(PublishesOf(w)))
            /\ Len(PublishesOf(w)) <= config.NumberOfMessages
            /\ pc[w] \in {"emit", "done"} =>
                PublishesOf(w) = PublishRun(config.NumberOfMessages)
            /\ pc[w] = "done" =>
                /\ Len(OutcomesOf(w)) = 1
                /\ OutcomesOf(w)[1].Event = CompletedEvent
                /\ OutcomesOf(w)[1].MessagesPublished = config.NumberOfMessages
                /\ ~OutcomesOf(w)[1].Error

\* C5's case: a connected worker has completed a loop of at least two
\* publishes although the last acknowledgment wait timed out, while another
\* worker goes on publishing after a publish that failed
C5_Witness ==
    \E w, v \in Workers :
        /\ Connected(w)
        /\ config.NumberOfMessages >= 2
        /\ pc[w] = "done"
        /\ lastAck[w] = "timeout"
        /\ Connected(v)
        /\ pc[v] = "ackWait"
        /\ i[v] >= 1
        /\ lastAck[v] = "error"

\* C6: a worker has issued a publish only after its connect succeeded; once
\* it has issued the disconnect, its calls are the connect, the
\* NumberOfMessages publishes, then the disconnect; and a Completed outcome is
\* in the sink only after the disconnect.
C6_ConnectPublishDisconnectOrder ==
    \A w \in Workers :
        /\ PublishesOf(w) # <<>> =>
            (connectToken[w].done /\ connectToken[w].err = NoError)
        /\ (\E k \in 1..Len(ops[w]) : ops[w][k].op = "disconnect") =>
            ops[w] = <<Op("connect", -1)>>
                     \o PublishRun(config.NumberOfMessages)
                     \o <<Op("disconnect", -1)>>
        /\ (\E k \in 1..Len(OutcomesOf(w)) :
                OutcomesOf(w)[k].Event = CompletedEvent) =>
            (ops[w] # <<>> /\ ops[w][Len(ops[w])].op = "disconnect")

(***************************************************************************)
(* Properties of buildSummary, checked under SpecSummary.                  *)
(***************************************************************************)
\* the positions of results, and those of the throughput-eligible outcomes
ResultIdx == 1..Len(results)
EligibleIdx ==
    {k \in ResultIdx : results[k].Event \in {"Completed", "ProgressReport"}}

\* the Summary and the error of the call
SummaryValue == summary.ret.value
SummaryErr == summary.ret.err

\* x is the published count of r divided by its elapsed seconds
IsSampleOf(x, r) == x.n * r.PublishTime = r.MessagesPublished * x.d

\* the sum of the published counts at the positions S
RECURSIVE PublishedAt(_)
PublishedAt(S) ==
    IF S = {} THEN 0
    ELSE LET k == CHOOSE x \in S : TRUE
         IN  results[k].MessagesPublished + PublishedAt(S \ {k})

\* the number of outcomes with the error flag set and event tag e
ErrorsTagged(e) ==
    Cardinality({k \in ResultIdx : results[k].Error /\ results[k].Event = e})

\* C7: buildSummary fails with the error "no results collected" exactly when
\* results is empty, with the other error "no feasible results found" exactly
\* when results is not empty and holds no Completed or ProgressReport
\* outcome, and with either error it returns the zero Summary.
C7_AggregationFaults ==
    phase = "summarized" =>
        /\ SummaryErr = "no results collected" <=> results = <<>>
        /\ SummaryErr = "no feasible results found"
            <=> (results # <<>> /\ EligibleIdx = {})
        /\ SummaryErr = NoError <=> EligibleIdx # {}
        /\ SummaryErr # NoError => SummaryValue = ZeroSummary

\* C7's case: a call on several outcomes, every one ConnectFailed
C7_Witness ==
    /\ phase = "summarized"
    /\ Len(results) = MaxResults
    /\ \A k \in ResultIdx :
        results[k].Event = ConnectFailedEvent /\ results[k].Error
    /\ SummaryErr = ErrNoFeasible

\* C8: on results holding a Completed or ProgressReport outcome, buildSummary
\* succeeds and PublishPerformance has Completed + InProgress elements, which
\* is the number of eligible outcomes, is ascending, and holds the sample
\* published / seconds of every eligible outcome as often as that value
\* occurs among them, and nothing else.
C8_ThroughputSamples ==
    (phase = "summarized" /\ EligibleIdx # {}) =>
        LET pp == SummaryValue.PublishPerformance
        IN  /\ SummaryErr = NoError
            /\ Len(pp) = SummaryValue.Completed + SummaryValue.InProgress
            /\ Len(pp) = Cardinality(EligibleIdx)
            /\ \A j \in 1..(Len(pp) - 1) : FLe(pp[j], pp[j + 1])
            /\ \A k \in EligibleIdx : \E j \in 1..Len(pp) :
                IsSampleOf(pp[j], results[k])
            /\ \A j \in 1..Len(pp) :
                Cardinality({q \in 1..Len(pp) : pp[q] = pp[j]})
                = Cardinality({k \in EligibleIdx :
                                    IsSampleOf(pp[j], results[k])})

\* C8's case: a faster eligible outcome before a slower one, and an outcome
\* that is not eligible
C8_Witness ==
    /\ phase = "summarized"
    /\ Len(results) = 3
    /\ results[1].Event = CompletedEvent
    /\ results[1].MessagesPublished = MaxPublished
    /\ results[1].PublishTime = 1
    /\ results[2].Event = ConnectFailedEvent
    /\ results[3].Event = ProgressReportEvent
    /\ results[3].MessagesPublished = MaxPublished
    /\ results[3].PublishTime = 2
    /\ SummaryValue.PublishPerformance
        = <<Frac(MaxPublished, 2), Float(MaxPublished)>>

\* the scenario of the specification: 3 clients, 10 messages each
ScenarioResults ==
    <<Result(0, CompletedEvent, FALSE, NoError, 1, 10),
      Result(0, CompletedEvent, FALSE, NoError, 2, 10),
      Result(0, ConnectFailedEvent, TRUE, "error", 0, 0)>>

\* C9: when buildSummary succeeds, TotalMessages = nClient * nMessages,
\* MessagesPublished = the sum of the published counts of all outcomes, Errors
\* = the number of outcomes with the error flag, ConnectFailed,
\* TimeoutExceeded and Aborted = the number of error-flagged outcomes with
\* that tag, Completed and InProgress = the number of outcomes with that
\* event, ErrorRate = Errors / nClient * 100; and the scenario gives 30, 20,
\* 1 error, 2 completed, 1 connect failure and the samples 5 and 10.
C9_SummaryCounters ==
    (phase = "summarized" /\ SummaryErr = NoError) =>
        LET v == SummaryValue
            nClient == summary.args[1]
            nMessages == summary.args[2]
        IN  /\ v.Clients = nClient
            /\ v.TotalMessages = nClient * nMessages
            /\ v.MessagesPublished = PublishedAt(ResultIdx)
            /\ v.Errors = Cardinality({k \in ResultIdx : results[k].Error})
            /\ v.ConnectFailed = ErrorsTagged("ConnectFailed")
            /\ v.TimeoutExceeded = ErrorsTagged("TimeoutExceeded")
            /\ v.Aborted = ErrorsTagged("Aborted")
            /\ v.Completed =
                Cardinality({k \in ResultIdx : results[k].Event = "Completed"})
            /\ v.InProgress =
                Cardinality({k \in ResultIdx :
                                results[k].Event = "ProgressReport"})
            /\ v.ErrorRate.n * nClient = 100 * v.Errors * v.ErrorRate.d
            /\ (results = ScenarioResults /\ nClient = 3 /\ nMessages = 10) =>
                /\ v.TotalMessages = 30
                /\ v.MessagesPublished = 20
                /\ v.Errors = 1
                /\ v.ErrorRate = Frac(100, 3)
                /\ v.Completed = 2
                /\ v.ConnectFailed = 1
                /\ v.PublishPerformance = <<Float(5), Float(10)>>

\* C9's case: the scenario has been summarized
C9_Witness ==
    /\ phase = "summarized"
    /\ results = ScenarioResults
    /\ summary.args = <<3, 10>>
    /\ SummaryErr = NoError
    /\ SummaryValue.MessagesPublished = 20

(***************************************************************************)
(* Properties of buildHistogram, checked under SpecHistogram.              *)
(***************************************************************************)
\* the least and the greatest sample, the bucket width, and the k-th bound
\* above the least sample
SeriesMin == inputSeries[1]
SeriesMax == inputSeries[Len(inputSeries)]
Width == FDiv(FSub(SeriesMax, SeriesMin), Float(10))
GridBound(k) == FAdd(SeriesMin, FMul(Width, Float(k)))

\* the integer part of x >= 0
Floor(x) == x.n \div x.d

\* the upper bound of the smallest of the 10 buckets of [min, max] that holds
\* v, a sample on a bound going to the lower bucket
LowerKey(v) ==
    GridBound(CHOOSE k \in 1..10 :
                /\ FLe(v, GridBound(k))
                /\ \A j \in 1..10 : FLe(v, GridBound(j)) => k <= j)

\* the smallest bound above v, a sample on a bound going to the upper bucket
UpperKey(v) ==
    IF Width = Float(0) THEN SeriesMin
    ELSE GridBound(Floor(FDiv(FSub(v, SeriesMin), Width)) + 1)

\* the samples of the series
SeriesIdx == 1..Len(inputSeries)

SummaryHistogram == SummaryValue.PublishPerformanceHistogram
SummarySamples == SummaryValue.PublishPerformance

\* the samples counted in the buckets up to key: those below key, every key
\* being a strict upper bound of its bucket; all of them when the samples are
\* all equal, the one key being that value
CountedUpTo(key) ==
    IF SummarySamples[1] = SummarySamples[Len(SummarySamples)]
    THEN 1..Len(SummarySamples)
    ELSE {j \in 1..Len(SummarySamples) : FLt(SummarySamples[j], key)}

\* C11: in the Summary of a successful buildSummary the histogram values,
\* taken in ascending key order, never decrease; the value of a key is the
\* number of samples counted in its bucket and in the lower ones, divided by
\* the number of throughput-eligible outcomes; every key has a sample of its
\* own (no bucket of count zero); and the value of the highest key is 1.
C11_CumulativeHistogram ==
    (phase = "summarized" /\ SummaryErr = NoError) =>
        LET h == SummaryHistogram
            keys == DOMAIN SummaryHistogram
        IN  /\ keys # {}
            /\ \A key \in keys :
                /\ h[key] = Frac(Cardinality(CountedUpTo(key)),
                                 Cardinality(EligibleIdx))
                /\ \E j \in CountedUpTo(key) :
                    \A lower \in keys :
                        FLt(lower, key) => j \notin CountedUpTo(lower)
                /\ \A lower \in keys :
                    FLt(lower, key) =>
                        (FLe(h[lower], h[key]) /\ h[lower] # h[key])
                /\ (\A other \in keys : FLe(other, key)) => h[key] = Float(1)

\* C11's case: three eligible outcomes with three different samples, counted
\* under three keys with the values 1/3, 2/3 and 1
C11_Witness ==
    /\ phase = "summarized"
    /\ SummaryErr = NoError
    /\ Len(SummarySamples) = 3
    /\ Cardinality(DOMAIN SummaryHistogram) = 3
    /\ {SummaryHistogram[key] : key \in DOMAIN SummaryHistogram}
        = {Frac(1, 3), Frac(2, 3), Float(1)}

(***************************************************************************)
(* Properties of median, checked under SpecMedian.                         *)
(***************************************************************************)
\* x is an element of rank k (from 0) of inputSeries taken in ascending order
HasRank(x, k) ==
    /\ Cardinality({j \in SeriesIdx : FLt(inputSeries[j], x)}) <= k
    /\ k < Cardinality({j \in SeriesIdx : FLe(inputSeries[j], x)})

\* inputSeries holds the integers 1..n, in some order
IsPermutationOf(n) ==
    /\ Len(inputSeries) = n
    /\ {inputSeries[j] : j \in SeriesIdx} = {Float(v) : v \in 1..n}

\* C12: the median buildSummary reports for n samples is the average of the
\* elements of rank floor((n-1)/2) and floor(n/2) of the samples taken in
\* ascending order, whatever their order of arrival: 5 for [5], 2.5 for the
\* samples 1, 2, 3, 4 and 2 for the samples 1, 2, 3.
C12_MedianOfSorted ==
    phase = "measured" =>
        LET m == SummaryValue.PublishPerformanceMedian
            n == Len(inputSeries)
        IN  /\ \E a, b \in SeriesIdx :
                /\ HasRank(inputSeries[a], (n - 1) \div 2)
                /\ HasRank(inputSeries[b], n \div 2)
                /\ m = FDiv(FAdd(inputSeries[a], inputSeries[b]), Float(2))
            /\ inputSeries = <<Float(5)>> => m = Float(5)
            /\ IsPermutationOf(4) => m = Frac(5, 2)
            /\ IsPermutationOf(3) => m = Float(2)

\* C12's case: the samples 4, 2, 1, 3 arrived in this order, median 2.5
C12_Witness ==
    /\ phase = "measured"
    /\ inputSeries = <<Float(4), Float(2), Float(1), Float(3)>>
    /\ SummaryValue.PublishPerformanceMedian = Frac(5, 2)

(***************************************************************************)
(* Properties of buildHistogram on equal samples, checked under            *)
(* SpecHistogram.                                                          *)
(***************************************************************************)
\* every sample of the series is the same value
AllSamplesEqual == \A j \in SeriesIdx : inputSeries[j] = inputSeries[1]

\* C16: when all samples are the same value, a single sample included, the
\* histogram has exactly one entry, its key is that value and its cumulative
\* value is 1.
C16_EqualSamplesOneBucket ==
    (phase = "built" /\ AllSamplesEqual) =>
        /\ DOMAIN histogram = {inputSeries[1]}
        /\ histogram[inputSeries[1]] = Float(1)

\* C16's case: several samples of one value above zero
C16_Witness ==
    /\ phase = "built"
    /\ Len(inputSeries) >= 2
    /\ AllSamplesEqual
    /\ FLt(Float(0), inputSeries[1])
    /\ Cardinality(DOMAIN histogram) = 1

(***************************************************************************)
(* Relations between the counters of a Summary, checked under SpecSummary. *)
(***************************************************************************)
\* r has the event and the error flag of a result Worker.Run sends: the
\* ConnectFailed result of src/worker.go:123-128 or the Completed result of
\* src/worker.go:149-154
IsWorkerOutcome(r) ==
    \/ r.Event = ConnectFailedEvent /\ r.Error
    \/ r.Event = CompletedEvent /\ ~r.Error

\* C17: in the Summary of a successful buildSummary, ConnectFailed +
\* TimeoutExceeded + Aborted <= Errors <= the number of outcomes, Completed +
\* InProgress + ConnectFailed + TimeoutExceeded + Aborted <= the number of
\* outcomes, and when the outcomes are the ones nClient workers sent, one
\* each, Completed + Errors = nClient.
C17_CounterRelations ==
    (phase = "summarized" /\ SummaryErr = NoError) =>
        LET v == SummaryValue
            tagged == v.ConnectFailed + v.TimeoutExceeded + v.Aborted
        IN  /\ tagged <= v.Errors
            /\ v.Errors <= Len(results)
            /\ v.Completed + v.InProgress + tagged <= Len(results)
            /\ ((\A k \in ResultIdx : IsWorkerOutcome(results[k]))
                    /\ Len(results) = summary.args[1]) =>
                v.Completed + v.Errors = summary.args[1]

\* C17's case: the outcomes of three workers, two of them failing to connect
C17_Witness ==
    /\ phase = "summarized"
    /\ SummaryErr = NoError
    /\ Len(results) = 3
    /\ summary.args[1] = 3
    /\ \A k \in ResultIdx : IsWorkerOutcome(results[k])
    /\ SummaryValue.Completed = 1
    /\ SummaryValue.ConnectFailed = 2
    /\ SummaryValue.Errors = 2

(***************************************************************************)
(* Properties of Worker.Run under cancellation, checked under SpecCancel.  *)
(***************************************************************************)
\* worker w is past the connect, in the publish loop or after it
InPublishLoop(w) == pc[w] \in {"loop", "ackWait", "sleep", "emit"}

\* C13: the cancellation signal given to Run is observed at worker startup
\* and only there.  A worker that starts with the signal raised does not go
\* on to the TLS setup and the connect; a worker inside the publish loop is
\* not interrupted by the signal, its acknowledgment wait is followed by the
\* pacing pause, and the outcome it emits is the Completed outcome counting
\* all its messages.
C13_SignalObservedAtStartup ==
    [][\A w \in Workers :
        /\ (cancelled /\ pc[w] = "init") => pc'[w] # "tls"
        /\ (cancelled /\ pc[w] = "ackWait" /\ pc'[w] # pc[w]) =>
            pc'[w] = "sleep"
        /\ (cancelled /\ InPublishLoop(w) /\ pc'[w] = "done") =>
            /\ Len(resultChan') = Len(resultChan) + 1
            /\ resultChan'[Len(resultChan')].WorkerId = w
            /\ resultChan'[Len(resultChan')].Event = CompletedEvent
            /\ resultChan'[Len(resultChan')].MessagesPublished
                = config.NumberOfMessages]_vars

(***************************************************************************)
(* Termination of Worker.Run, checked under SpecLive.                      *)
(***************************************************************************)
\* worker w has sent its one outcome and Run has returned
EmittedAndStopped(w) == pc[w] = "done" /\ Len(OutcomesOf(w)) = 1

RunIdx == 1..Len(identities)

\* runs a and b have the same ordinal and differ in host name or in salt
SameOrdinalOtherHostOrSalt(a, b) ==
    /\ identities[a].WorkerId = identities[b].WorkerId
    /\ \/ identities[a].hostname # identities[b].hostname
       \/ identities[a].t # identities[b].t

====
